---------------------------- MODULE Spec2Model ----------------------------
(***************************************************************************)
(* State-machine model of the retrieval-and-answer pipeline of rag.py:     *)
(* HDSSKnowledgeBase (embed_text, embed_documents, upsert_documents,       *)
(* search) and HDSSAssistant (_format_context, ask, _demo_response).       *)
(* Python strings are TLA+ strings; dicts are functions on their key set;  *)
(* a call either returns a value or raises an exception.                   *)
(***************************************************************************)
EXTENDS Integers, Sequences, FiniteSets, TLC

VARIABLES
    encoder,    \* HDSSKnowledgeBase.encoder is not None
    index,      \* HDSSKnowledgeBase.index is not None
    client,     \* HDSSAssistant.client is not None
    constructed, \* how the constructors ended: "return" or "raise"
    store,      \* contents of the vector index: id -> [values, metadata]
    indexed,    \* history: id -> the document dict last upserted under id
    pc,         \* per caller: position in the call it is running
    args,       \* per caller: the arguments of the running call
    searched,   \* per caller: how the search step of the running ask ended
    generated,  \* per caller: how the answer step's generation call ended
    documents,  \* per caller: ask's local `documents`
    context,    \* per caller: ask's local `context`
    vectors,    \* per caller: upsert_documents' local `vectors`
    i,          \* per caller: upsert_documents' loop variable `i`
    total,      \* per caller: upsert_documents' local `total`
    calls,      \* per caller: external calls issued by the running call
    result,     \* per caller: what the finished call returned or raised
    session_state, \* the page's st.session_state: key -> value
    user_question  \* the page's local `user_question` of its latest run

vars == <<encoder, index, client, constructed, store, indexed, pc, args, searched,
          generated, documents, context, vectors, i, total, calls, result,
          session_state, user_question>>

-----------------------------------------------------------------------------
(* Bounds of the model *)

MaxTopK == 2

MaxDocs == 3

MaxBatch == 2

\* questions submitted to the page in one session
MaxSubmissions == 3

-----------------------------------------------------------------------------
(* Python values *)

Min(a, b) == IF a <= b THEN a ELSE b

\* dict.get(key, default)
Get(d, key, default) == IF key \in DOMAIN d THEN d[key] ELSE default

Return(v) == [kind |-> "return", value |-> v]

Raise(e) == [kind |-> "raise", error |-> e]

NoResult == [kind |-> "none"]

\* the arguments of a caller that runs no call
NoCall == [op |-> "none"]

\* raise RuntimeError("Pinecone not configured")
StoreUnavailable == [type |-> "RuntimeError", msg |-> "Pinecone not configured"]

\* raise RuntimeError("Sentence transformers not available")
EmbeddingUnavailable ==
    [type |-> "RuntimeError", msg |-> "Sentence transformers not available"]

\* doc["content"] / doc["source"] on a dict without that key
KeyError(k) == [type |-> "KeyError", msg |-> k]

\* an exception raised by the vector service during query or upsert
VectorServiceError == [type |-> "PineconeException", msg |-> "vector service error"]

\* an exception raised by the generation service during messages.create
GenerationError == [type |-> "APIError", msg |-> "generation service error"]

-----------------------------------------------------------------------------
(* str.lower() and the `in` operator on strings *)

LowerMap ==
    [A |-> "a", B |-> "b", C |-> "c", D |-> "d", E |-> "e", F |-> "f",
     G |-> "g", H |-> "h", I |-> "i", J |-> "j", K |-> "k", L |-> "l",
     M |-> "m", N |-> "n", O |-> "o", P |-> "p", Q |-> "q", R |-> "r",
     S |-> "s", T |-> "t", U |-> "u", V |-> "v", W |-> "w", X |-> "x",
     Y |-> "y", Z |-> "z"]

LowerChar(ch) == IF ch \in DOMAIN LowerMap THEN LowerMap[ch] ELSE ch

RECURSIVE Lower(_)
Lower(s) ==
    IF Len(s) = 0 THEN ""
    ELSE LowerChar(SubSeq(s, 1, 1)) \o Lower(SubSeq(s, 2, Len(s)))

\* sub in s
Contains(sub, s) ==
    \E p \in 1..(Len(s) - Len(sub) + 1) : SubSeq(s, p, p + Len(sub) - 1) = sub

-----------------------------------------------------------------------------
(* Inputs *)

Callers == DOMAIN pc

Questions ==
    {"What is a phenotype?", "How is data quality assessed?",
     "PHENOTYPE quality", "Tell me about QA", "etl Curation",
     "Equality for all", "Quality of ETL", "Data linkage"}

TopKs == 1..MaxTopK

\* filter=None is the empty mapping; otherwise a metadata equality filter
NoFilter == <<>>

Filters == {NoFilter, [category |-> "phenotypes"]}

DocPool ==
    {[id |-> "doc_1", content |-> "AMI phenotype", source |-> "phenotypes/ami.md",
      metadata |-> [category |-> "phenotypes"]],
     [id |-> "doc_1", content |-> "Data quality", source |-> "data_quality_framework.md",
      metadata |-> [content |-> "Quality ETL", source |-> "wiki"]],
     [content |-> "Partial curation", source |-> "curation_services.md"],
     [id |-> "nosrc", content |-> "No provenance"]}

BatchSizes == 1..MaxBatch

RECURSIVE SeqsUpTo(_, _)
SeqsUpTo(S, n) ==
    IF n = 0 THEN {<<>>}
    ELSE LET shorter == SeqsUpTo(S, n - 1)
         IN  shorter \cup {Append(s, x) : s \in {t \in shorter : Len(t) = n - 1}, x \in S}

DocLists == SeqsUpTo(DocPool, MaxDocs)

\* texts the generation service may produce
GenTexts == {"Generated answer A", "Generated answer B"}

-----------------------------------------------------------------------------
(* The external services behind the three backends *)

\* SentenceTransformer.encode(text).tolist(): a deterministic vector of the
\* text; one component per topic the text mentions.
Encode(text) ==
    LET lowered == Lower(text)
        topic(word) == IF Contains(word, lowered) THEN 1 ELSE 0
    IN  <<topic("phenotype"), topic("quality"), topic("curation")>>

\* the texts a call can hand to the encoder, and the vector of each
Texts == Questions \cup {d.content : d \in {p \in DocPool : "content" \in DOMAIN p}}

Embedding == [text \in Texts |-> Encode(text)]

\* the index's similarity metric (dot product; higher = more similar)
Similarity(u, v) == u[1] * v[1] + u[2] * v[2] + u[3] * v[3]

\* Index.upsert(vectors=batch): each vector replaces the entry of its id,
\* in list order.
RECURSIVE Upserted(_, _)
Upserted(st, batch) ==
    IF batch = <<>> THEN st
    ELSE LET v == Head(batch)
         IN  Upserted((v.id :> [values |-> v.values, metadata |-> v.metadata]) @@ st,
                      Tail(batch))

\* a metadata filter selects the entries that carry every (key, value) of it
FilterMatch(filter, metadata) ==
    \A k \in DOMAIN filter : k \in DOMAIN metadata /\ metadata[k] = filter[k]

Match(st, vector, id) ==
    [id |-> id, score |-> Similarity(vector, st[id].values),
     metadata |-> st[id].metadata]

\* Index.query(vector, top_k, include_metadata=True, filter).matches: the
\* top_k most similar entries that pass the filter, most similar first;
\* entries of equal score come in any order.
QueryResults(st, vector, top_k, filter) ==
    LET cands == {id \in DOMAIN st : FilterMatch(filter, st[id].metadata)}
        n     == Min(top_k, Cardinality(cands))
        score(id) == Similarity(vector, st[id].values)
        ranked == {s \in [1..n -> cands] :
                     /\ \A a, b \in 1..n : a < b =>
                            s[a] # s[b] /\ score(s[a]) >= score(s[b])
                     /\ \A id \in cands :
                            (\A a \in 1..n : s[a] # id) =>
                                \A a \in 1..n : score(s[a]) >= score(id)}
    IN  {[a \in 1..n |-> Match(st, vector, s[a])] : s \in ranked}

-----------------------------------------------------------------------------
(* HDSSKnowledgeBase *)

\* embed_text answering with the zero vector when there is no encoder
embed_text_zero_vector(text) ==
    IF ~encoder THEN Return(<<0, 0, 0>>)
    ELSE Return(Embedding[text])

embed_text(text) ==
    IF ~encoder THEN Raise(EmbeddingUnavailable)
    ELSE Return(Embedding[text])

\* embed_documents numbering every vector by its position: "id": f"doc_{i}"
embed_document_positional_id(pos, doc) ==
    IF "content" \notin DOMAIN doc THEN Raise(KeyError("content"))
    ELSE LET embedding == embed_text(doc["content"])
         IN  IF embedding.kind = "raise" THEN embedding
             ELSE IF "source" \notin DOMAIN doc THEN Raise(KeyError("source"))
             ELSE Return([id |-> "doc_" \o ToString(pos),
                          values |-> embedding.value,
                          metadata |-> Get(doc, "metadata", <<>>) @@
                                       [content |-> doc["content"],
                                        source |-> doc["source"]]])

\* embed_documents spreading the extra metadata first:
\* {**doc.get("metadata", {}), "content": ..., "source": ...}
embed_document_own_fields_last(pos, doc) ==
    IF "content" \notin DOMAIN doc THEN Raise(KeyError("content"))
    ELSE LET embedding == embed_text(doc["content"])
         IN  IF embedding.kind = "raise" THEN embedding
             ELSE IF "source" \notin DOMAIN doc THEN Raise(KeyError("source"))
             ELSE Return([id |-> Get(doc, "id", "doc_" \o ToString(pos)),
                          values |-> embedding.value,
                          metadata |-> [content |-> doc["content"],
                                        source |-> doc["source"]] @@
                                       Get(doc, "metadata", <<>>)])

\* one iteration of the loop of embed_documents, for the document at
\* 0-based position pos
embed_document(pos, doc) ==
    IF "content" \notin DOMAIN doc THEN Raise(KeyError("content"))
    ELSE LET embedding == embed_text(doc["content"])
         IN  IF embedding.kind = "raise" THEN embedding
             ELSE IF "source" \notin DOMAIN doc THEN Raise(KeyError("source"))
             ELSE Return([id |-> Get(doc, "id", "doc_" \o ToString(pos)),
                          values |-> embedding.value,
                          metadata |-> Get(doc, "metadata", <<>>) @@
                                       [content |-> doc["content"],
                                        source |-> doc["source"]]])

\* embed_documents leaving out the documents it cannot embed
embed_documents_skips_failures(docs) ==
    LET each == [j \in 1..Len(docs) |-> embed_document(j - 1, docs[j])]
        good == SelectSeq(each, LAMBDA e : e.kind = "return")
    IN  Return([j \in 1..Len(good) |-> good[j].value])

embed_documents(docs) ==
    LET each == [j \in 1..Len(docs) |-> embed_document(j - 1, docs[j])]
        failed == {j \in 1..Len(docs) : each[j].kind = "raise"}
    IN  IF failed # {}
        THEN each[CHOOSE j \in failed : \A k \in failed : j <= k]
        ELSE Return([j \in 1..Len(docs) |-> each[j].value])

\* the loop body of search: one RetrievedDocument per match
RetrievedDocument(match) ==
    [content  |-> Get(match.metadata, "content", ""),
     source   |-> Get(match.metadata, "source", "Unknown"),
     score    |-> match.score,
     metadata |-> [k \in DOMAIN match.metadata \ {"content", "source"} |->
                      match.metadata[k]]]

\* search prepending each RetrievedDocument (documents.insert(0, ...))
search_documents_reversed(matches) ==
    [j \in 1..Len(matches) |-> RetrievedDocument(matches[Len(matches) + 1 - j])]

\* search keeping the best match of each source only
search_documents_unique_source(matches) ==
    LET all == [j \in 1..Len(matches) |->
                   [at |-> j, doc |-> RetrievedDocument(matches[j])]]
        first == SelectSeq(all, LAMBDA e :
                     \A k \in 1..(e.at - 1) : all[k].doc.source # e.doc.source)
    IN  [j \in 1..Len(first) |-> first[j].doc]

search_documents(matches) ==
    [j \in 1..Len(matches) |-> RetrievedDocument(matches[j])]

\* search querying with the default top_k, not the caller's
search_query_default_top_k(query_embedding, top_k, filter) ==
    [kind |-> "query", vector |-> query_embedding, top_k |-> 5,
     filter |-> filter]

\* the arguments search hands to Index.query
search_query(query_embedding, top_k, filter) ==
    [kind |-> "query", vector |-> query_embedding, top_k |-> top_k,
     filter |-> filter]

\* search with the embedding computed before the index check
search_embeds_first(query, top_k, filter) ==
    LET query_embedding == embed_text(query)
    IN  IF query_embedding.kind = "raise"
        THEN {query_embedding @@ [calls |-> <<>>]}
        ELSE IF ~index THEN {Raise(StoreUnavailable) @@ [calls |-> <<>>]}
        ELSE LET q == search_query(query_embedding.value, top_k, filter)
             IN  {Raise(VectorServiceError) @@ [calls |-> <<q>>]}
                 \cup
                 {Return(search_documents(m)) @@
                      [calls |-> <<q>>, matches |-> m] :
                    m \in QueryResults(store, q.vector, q.top_k, q.filter)}

\* search querying the index a second time when the first query raises
search_retries_query(query, top_k, filter) ==
    IF ~index THEN {Raise(StoreUnavailable) @@ [calls |-> <<>>]}
    ELSE LET query_embedding == embed_text(query)
         IN  IF query_embedding.kind = "raise"
             THEN {query_embedding @@ [calls |-> <<>>]}
             ELSE LET q == search_query(query_embedding.value, top_k, filter)
                  IN  {Raise(VectorServiceError) @@ [calls |-> <<q, q>>]}
                      \cup
                      {Return(search_documents(m)) @@
                           [calls |-> <<q, q>>, matches |-> m] :
                         m \in QueryResults(store, q.vector, q.top_k, q.filter)}
                      \cup
                      {Return(search_documents(m)) @@
                           [calls |-> <<q>>, matches |-> m] :
                         m \in QueryResults(store, q.vector, q.top_k, q.filter)}

\* search(query, top_k, filter): the set of its possible outcomes, each with
\* the external calls it issued (and, when it returns, the matches it got)
search(query, top_k, filter) ==
    IF ~index THEN {Raise(StoreUnavailable) @@ [calls |-> <<>>]}
    ELSE LET query_embedding == embed_text(query)
         IN  IF query_embedding.kind = "raise"
             THEN {query_embedding @@ [calls |-> <<>>]}
             ELSE LET q == search_query(query_embedding.value, top_k, filter)
                  IN  {Raise(VectorServiceError) @@ [calls |-> <<q>>]}
                      \cup
                      {Return(search_documents(m)) @@
                           [calls |-> <<q>>, matches |-> m] :
                         m \in QueryResults(store, q.vector, q.top_k, q.filter)}

-----------------------------------------------------------------------------
(* HDSSAssistant *)

SYSTEM_PROMPT ==
    "You are an expert assistant for Health Data Science-as-a-Service (HDSaaS), \na platform that helps research groups work with large-scale NHS health datasets.\n\nYour expertise includes:\n- Clinical phenotype development using SNOMED CT, ICD-10, OPCS-4, Read v2, and BNF coding systems\n- NHS data curation including GDPPR (primary care) and HES (secondary care)\n- PySpark and Databricks for data processing\n- Data quality assurance and validation\n- Data linkage across multiple NHS sources\n- Covariate and outcome derivation for research cohorts\n\nWhen answering questions:\n1. Use the provided context to give accurate, specific answers\n2. Cite the sources when referencing specific information\n3. If the context doesn't contain relevant information, say so clearly\n4. Provide practical examples where helpful\n5. Be concise but thorough\n\nContext from the knowledge base:\n{context}\n"

DefaultModel == "claude-sonnet-4-20250514"

\* where the replacement field of SYSTEM_PROMPT starts
ContextField ==
    CHOOSE p \in 1..Len(SYSTEM_PROMPT) : SubSeq(SYSTEM_PROMPT, p, p + 8) = "{context}"

\* SYSTEM_PROMPT.format(context=context)
FormatSystemPrompt(ctx) ==
    SubSeq(SYSTEM_PROMPT, 1, ContextField - 1) \o ctx \o
    SubSeq(SYSTEM_PROMPT, ContextField + 9, Len(SYSTEM_PROMPT))

\* sep.join(parts)
RECURSIVE Join(_, _)
Join(sep, parts) ==
    IF parts = <<>> THEN ""
    ELSE IF Len(parts) = 1 THEN parts[1]
    ELSE parts[1] \o sep \o Join(sep, Tail(parts))

NoDocumentsContext == "No relevant documents found."

\* _format_context numbering the sources from 0: enumerate(documents)
_format_context_zero_based(docs) ==
    IF docs = <<>> THEN NoDocumentsContext
    ELSE Join("\n---\n",
              [j \in 1..Len(docs) |->
                  "[Source " \o ToString(j - 1) \o ": " \o docs[j].source \o "]\n" \o
                  docs[j].content \o "\n"])

_format_context(docs) ==
    IF docs = <<>> THEN NoDocumentsContext
    ELSE Join("\n---\n",
              [j \in 1..Len(docs) |->
                  "[Source " \o ToString(j) \o ": " \o docs[j].source \o "]\n" \o
                  docs[j].content \o "\n"])

PhenotypeResponse ==
    "Phenotypes in HDSaaS are clinical definitions that identify patient populations \nor conditions using standardised clinical codes.\n\nOur phenotype development service includes:\n- **Codelist-driven definitions** using SNOMED CT, ICD-10, OPCS-4, Read v2, and BNF\n- **Version-controlled specifications** with full audit trails\n- **Multi-source compatibility** across GDPPR, HES, and disease registries\n\nEach phenotype is delivered as a structured JSON specification with accompanying PySpark implementation."

QualityResponse ==
    "Our Data Quality & Assurance service provides comprehensive automated checks:\n\n1. **Completeness** - Missingness rates and required field validation\n2. **Validity** - Value range checks and code validity\n3. **Consistency** - Cross-table integrity and duplicate detection\n4. **Timeliness** - Date plausibility and sequence logic\n5. **Uniqueness** - Primary key validation\n6. **Accuracy** - Distribution analysis and outlier detection\n\nReports are delivered in PDF, HTML, and Markdown formats."

CurationResponse ==
    "We offer two levels of data curation:\n\n**Partial Curation** (Core ETL):\n- Long-format primary care data transformation\n- Secondary care harmonisation (HES APC, OP, A&E)\n- Disease registry ingestion\n- Schema documentation\n\n**Full Curation** (Complete Derivations):\n- All partial curation features\n- Covariate derivation (comorbidities, medications, labs)\n- Outcome derivation (MACE, mortality, hospitalisation)\n- Time-varying features\n- Research-ready cohort generation"

GenericResponse ==
    "I can help you with questions about:\n\n- **Phenotype development** - Clinical definitions and codelists\n- **Data curation** - ETL, harmonisation, and derivations\n- **Data quality** - Automated QA processes\n- **Technical capabilities** - PySpark, Databricks, coding systems\n- **Data linkage** - Cross-source patient matching\n\nWhat would you like to know more about?"

\* _demo_response matching the question as typed, without lower()
_demo_response_case_sensitive(question, docs) ==
    IF Contains("phenotype", question) THEN PhenotypeResponse
    ELSE IF Contains("quality", question) \/ Contains("qa", question)
         THEN QualityResponse
    ELSE IF Contains("curation", question) \/ Contains("etl", question)
         THEN CurationResponse
    ELSE GenericResponse

\* _demo_response looking for the plural "phenotypes"
_demo_response_plural_keyword(question, docs) ==
    LET q_lower == Lower(question)
    IN  IF Contains("phenotypes", q_lower) THEN PhenotypeResponse
        ELSE IF Contains("quality", q_lower) \/ Contains("qa", q_lower)
             THEN QualityResponse
        ELSE IF Contains("curation", q_lower) \/ Contains("etl", q_lower)
             THEN CurationResponse
        ELSE GenericResponse

_demo_response(question, docs) ==
    LET q_lower == Lower(question)
    IN  IF Contains("phenotype", q_lower) THEN PhenotypeResponse
        ELSE IF Contains("quality", q_lower) \/ Contains("qa", q_lower)
             THEN QualityResponse
        ELSE IF Contains("curation", q_lower) \/ Contains("etl", q_lower)
             THEN CurationResponse
        ELSE GenericResponse

\* ask catching RuntimeError only: other exceptions of search leave ask
ask_retrieve_runtime_errors_only(outcome) ==
    IF outcome.kind = "raise"
    THEN IF outcome.error.type = "RuntimeError" THEN Return(<<>>)
         ELSE Raise(outcome.error)
    ELSE Return(outcome.value)

\* ask's try/except around kb.search: `documents`, or the exception that
\* leaves ask
ask_retrieve(outcome) ==
    IF outcome.kind = "raise" THEN Return(<<>>) ELSE Return(outcome.value)

\* the request ask sends to client.messages.create
\* the request carrying the fixed prompt and the question after it in the
\* user message
ask_request_prompt_in_message(system_prompt, question) ==
    [kind |-> "generate", model |-> DefaultModel, max_tokens |-> 1024,
     system |-> SYSTEM_PROMPT,
     messages |-> <<[role |-> "user",
                     content |-> system_prompt \o "\n\n" \o question]>>]

ask_request(system_prompt, question) ==
    [kind |-> "generate", model |-> DefaultModel, max_tokens |-> 1024,
     system |-> system_prompt,
     messages |-> <<[role |-> "user", content |-> question]>>]

\* ask answering with the demo response when the generation call raises
ask_answer_falls_back(question, docs, system_prompt) ==
    IF client
    THEN LET req == ask_request(system_prompt, question)
         IN  {Return(_demo_response(question, docs)) @@
                  [calls |-> <<req>>, generation |-> Raise(GenerationError)]}
             \cup {Return(text) @@ [calls |-> <<req>>, generation |-> Return(text)] :
                      text \in GenTexts}
    ELSE {Return(_demo_response(question, docs)) @@
              [calls |-> <<>>, generation |-> [kind |-> "absent"]]}

\* ask's answer step: its possible outcomes (`answer`, or the exception that
\* leaves ask), each with the generation call's own outcome
ask_answer(question, docs, system_prompt) ==
    IF client
    THEN LET req == ask_request(system_prompt, question)
         IN  {Raise(GenerationError) @@
                  [calls |-> <<req>>, generation |-> Raise(GenerationError)]}
             \cup {Return(text) @@ [calls |-> <<req>>, generation |-> Return(text)] :
                      text \in GenTexts}
    ELSE {Return(_demo_response(question, docs)) @@
              [calls |-> <<>>, generation |-> [kind |-> "absent"]]}

\* a RAGResponse that keeps only the sources of positive score
RAGResponse_relevant_only(answer, docs, question) ==
    [answer |-> answer, sources |-> SelectSeq(docs, LAMBDA d : d.score > 0),
     query |-> question]

RAGResponse(answer, docs, question) ==
    [answer |-> answer, sources |-> docs, query |-> question]

\* the default of ask's parameter top_k
DefaultTopK == 5

\* where control goes when ask ends with the outcome: an exception leaves
\* the call whoever made it, a response goes back to get_rag_response when
\* the ask was its own
ask_returns_to(op, outcome) ==
    IF op = "get_rag_response" /\ outcome.kind = "return" THEN "rag_return"
    ELSE "done"

\* get_rag_response listing every source name once
get_rag_response_unique_sources(response) ==
    LET names == [j \in 1..Len(response.sources) |->
                     [at |-> j, source |-> response.sources[j].source]]
        first == SelectSeq(names, LAMBDA n :
                     \A k \in 1..(n.at - 1) : names[k].source # n.source)
    IN  <<response.answer, [j \in 1..Len(first) |-> first[j].source]>>

\* what get_rag_response makes of the response of ask
get_rag_response(response) ==
    <<response.answer,
      [j \in 1..Len(response.sources) |-> response.sources[j].source]>>

-----------------------------------------------------------------------------
(* upsert_documents *)

\* batch = vectors[i:i + batch_size]
upsert_batch(vecs, from, batch_size) ==
    SubSeq(vecs, from + 1, Min(from + batch_size, Len(vecs)))

\* a loop over full batches only: range(0, len(vectors) - batch_size + 1, batch_size)
upsert_in_range_full_batches(vecs, from, batch_size) == from + batch_size <= Len(vecs)

\* whether range(0, len(vectors), batch_size) yields the value `from`
upsert_in_range(vecs, from, batch_size) == from < Len(vecs)

\* the history of which document each stored entry came from
RECURSIVE Recorded(_, _, _)
Recorded(hist, ids, docs) ==
    IF ids = <<>> THEN hist
    ELSE Recorded((Head(ids) :> Head(docs)) @@ hist, Tail(ids), Tail(docs))

-----------------------------------------------------------------------------
(* The chat section of the page, app.py *)

\* st.chat_input(...): None when nothing was submitted in this run, the
\* submitted text otherwise
NoSubmission == [submitted |-> FALSE]

Submission(text) == [submitted |-> TRUE, text |-> text]

PageQuestions ==
    {"", "What is a phenotype?", "PHENOTYPE quality", "Tell me about QA",
     "Data linkage"}

PageInputs == {NoSubmission} \cup {Submission(text) : text \in PageQuestions}

response_map ==
    [phenotype |-> "Based on our documentation, **phenotypes** are clinical definitions that identify patient populations or conditions using standardised clinical codes. \n\nOur phenotype development service includes:\n- **Codelist-driven definitions** using SNOMED CT, ICD-10, OPCS-4, Read v2, and BNF\n- **Version-controlled specifications** with full audit trails\n- **Multi-source compatibility** across GDPPR, HES, and disease registries\n\nEach phenotype is delivered as a structured JSON specification with accompanying PySpark implementation code.",
     quality |-> "Our **Data Quality & Assurance** service provides comprehensive automated checks across six dimensions:\n\n1. **Completeness** - Missingness rates and required field validation\n2. **Validity** - Value range checks and code validity\n3. **Consistency** - Cross-table integrity and duplicate detection\n4. **Timeliness** - Date plausibility and sequence logic\n5. **Uniqueness** - Primary key validation\n6. **Accuracy** - Distribution analysis and outlier detection\n\nReports are delivered in PDF, HTML, and Markdown formats with interactive visualisations.",
     default |-> "I can help you with questions about:\n- **Phenotype development** - Clinical definitions and codelists\n- **Data curation** - ETL, harmonisation, and derivations\n- **Data quality** - Automated QA processes\n- **Technical capabilities** - PySpark, Databricks, coding systems\n- **Data linkage** - Cross-source patient matching\n\nWhat would you like to know more about?"]

\* the simulated response and its sources: keyword matching on the question
page_response(question) ==
    LET lowered == Lower(question)
    IN  IF Contains("phenotype", lowered)
        THEN [response |-> response_map["phenotype"],
              sources |-> <<"phenotype_development.md", "codelist_standards.md">>]
        ELSE IF Contains("quality", lowered) \/ Contains("qa", lowered)
        THEN [response |-> response_map["quality"],
              sources |-> <<"data_quality_framework.md", "qa_checklist.md">>]
        ELSE [response |-> response_map["default"], sources |-> <<>>]

\* st.session_state.messages, once the page has initialised it
SessionMessages(state) ==
    IF "messages" \in DOMAIN state THEN state["messages"] ELSE <<>>

\* `if user_question:` : None and the empty string are falsy
Truthy(question) == question.submitted /\ question.text # ""

\* the page keeping the assistant's message only when it has sources
page_run_sourced_only(state, question) ==
    LET messages == SessionMessages(state)
    IN  IF Truthy(question)
        THEN LET answer == page_response(question.text)
                 asked == Append(messages, [role |-> "user", content |-> question.text])
             IN  [messages |->
                     IF answer.sources # <<>>
                     THEN Append(asked, [role |-> "assistant",
                                         content |-> answer.response,
                                         sources |-> answer.sources])
                     ELSE asked]
        ELSE [messages |-> messages]

\* one run of the page script: the session state it leaves
page_run(state, question) ==
    LET messages == SessionMessages(state)
    IN  IF Truthy(question)
        THEN LET answer == page_response(question.text)
                 asked == Append(messages, [role |-> "user", content |-> question.text])
             IN  [messages |-> Append(asked, [role |-> "assistant",
                                              content |-> answer.response,
                                              sources |-> answer.sources])]
        ELSE [messages |-> messages]

-----------------------------------------------------------------------------
(* State machine *)

config == <<encoder, index, client, constructed>>

page == <<session_state, user_question>>

askLocals == <<searched, generated, documents, context>>

upsertLocals == <<vectors, i, total>>

\* a new browser session whose page has not run yet
InitPageState ==
    /\ session_state = <<>>
    /\ user_question = NoSubmission

\* the process environment the constructors read: which optional packages
\* were imported, and which API keys are given (as argument or variable)
Envs ==
    [PINECONE_AVAILABLE : BOOLEAN, PINECONE_API_KEY : BOOLEAN,
     EMBEDDINGS_AVAILABLE : BOOLEAN,
     ANTHROPIC_AVAILABLE : BOOLEAN, ANTHROPIC_API_KEY : BOOLEAN]

\* a Pinecone client constructed without an API key
ConfigurationError == [type |-> "PineconeConfigurationError", msg |-> "no API key"]

\* the knowledge base building the Pinecone client whenever the package is there
HDSSKnowledgeBase_init_without_key_check(env) ==
    IF env.PINECONE_AVAILABLE /\ ~env.PINECONE_API_KEY THEN Raise(ConfigurationError)
    ELSE Return([index |-> env.PINECONE_AVAILABLE,
                 encoder |-> env.EMBEDDINGS_AVAILABLE])

\* HDSSKnowledgeBase.__init__: which of index and encoder are set
HDSSKnowledgeBase_init(env) ==
    Return([index |-> env.PINECONE_AVAILABLE /\ env.PINECONE_API_KEY,
            encoder |-> env.EMBEDDINGS_AVAILABLE])

\* HDSSAssistant.__init__ with no knowledge base given
HDSSAssistant_init(env) ==
    LET kb == HDSSKnowledgeBase_init(env)
    IN  IF kb.kind = "raise" THEN kb
        ELSE Return([kb |-> kb.value,
                     client |-> env.ANTHROPIC_AVAILABLE /\ env.ANTHROPIC_API_KEY])

\* the assistant and its knowledge base are constructed in some environment;
\* a constructor that raised would leave no backend to call
InitConfig ==
    \E env \in Envs :
        LET made == HDSSAssistant_init(env)
        IN  /\ constructed = made.kind
            /\ encoder = (made.kind = "return" /\ made.value.kb.encoder)
            /\ index = (made.kind = "return" /\ made.value.kb.index)
            /\ client = (made.kind = "return" /\ made.value.client)

\* no call is running: every caller's frame is empty
InitFrames(cs) ==
    /\ pc = [c \in cs |-> "idle"]
    /\ args = [c \in cs |-> NoCall]
    /\ searched = [c \in cs |-> NoResult]
    /\ generated = [c \in cs |-> NoResult]
    /\ documents = [c \in cs |-> <<>>]
    /\ context = [c \in cs |-> ""]
    /\ vectors = [c \in cs |-> <<>>]
    /\ i = [c \in cs |-> 0]
    /\ total = [c \in cs |-> 0]
    /\ calls = [c \in cs |-> <<>>]
    /\ result = [c \in cs |-> NoResult]

InitCallers(cs) ==
    /\ InitConfig
    /\ store = <<>>
    /\ indexed = <<>>
    /\ InitFrames(cs)
    /\ InitPageState

Init == InitCallers({"t1"})

\* a caller invokes kb.embed_text(text) directly
Embed(c, text) ==
    /\ pc[c] = "idle"
    /\ args' = [args EXCEPT ![c] = [op |-> "embed_text", text |-> text]]
    /\ result' = [result EXCEPT ![c] = embed_text(text)]
    /\ pc' = [pc EXCEPT ![c] = "done"]
    /\ UNCHANGED <<config, page, store, indexed, askLocals, upsertLocals, calls>>

\* a caller invokes kb.search(query, top_k, filter) directly
Search(c, query, top_k, filter) ==
    /\ pc[c] = "idle"
    /\ \E o \in search(query, top_k, filter) :
          /\ result' = [result EXCEPT ![c] = o]
          /\ calls' = [calls EXCEPT ![c] = o.calls]
    /\ args' = [args EXCEPT ![c] =
                   [op |-> "search", query |-> query, top_k |-> top_k,
                    filter |-> filter]]
    /\ pc' = [pc EXCEPT ![c] = "done"]
    /\ UNCHANGED <<config, page, store, indexed, askLocals, upsertLocals>>

\* a caller invokes get_rag_response(question), which constructs an assistant
\* from the same environment and calls assistant.ask(question)
GetRagResponseCall(c, question) ==
    /\ pc[c] = "idle"
    /\ args' = [args EXCEPT ![c] =
                   [op |-> "get_rag_response", question |-> question,
                    top_k |-> DefaultTopK, filter |-> NoFilter]]
    /\ pc' = [pc EXCEPT ![c] = "ask_search"]
    /\ UNCHANGED <<config, page, store, indexed, askLocals, upsertLocals, calls, result>>

\* get_rag_response, lines 372-373: the answer and the source names
GetRagResponseReturn(c) ==
    /\ pc[c] = "rag_return"
    /\ result' = [result EXCEPT ![c] = Return(get_rag_response(result[c].value))]
    /\ pc' = [pc EXCEPT ![c] = "done"]
    /\ UNCHANGED <<config, page, store, indexed, args, askLocals, upsertLocals, calls>>

\* a caller invokes assistant.ask(question, top_k, filter)
AskCall(c, question, top_k, filter) ==
    /\ pc[c] = "idle"
    /\ args' = [args EXCEPT ![c] =
                   [op |-> "ask", question |-> question, top_k |-> top_k,
                    filter |-> filter]]
    /\ pc' = [pc EXCEPT ![c] = "ask_search"]
    /\ UNCHANGED <<config, page, store, indexed, askLocals, upsertLocals, calls, result>>

\* ask keeping the retrieved documents in an attribute of the assistant,
\* which every running call reads
AskSearch_shared_documents(c) ==
    /\ pc[c] = "ask_search"
    /\ \E o \in search(args[c].question, args[c].top_k, args[c].filter) :
          LET retrieved == ask_retrieve(o)
          IN  /\ searched' = [searched EXCEPT ![c] = o]
              /\ calls' = [calls EXCEPT ![c] = calls[c] \o o.calls]
              /\ IF retrieved.kind = "raise"
                 THEN /\ result' = [result EXCEPT ![c] = Raise(retrieved.error)]
                      /\ pc' = [pc EXCEPT ![c] = "done"]
                      /\ UNCHANGED documents
                 ELSE /\ documents' = [d \in Callers |-> retrieved.value]
                      /\ pc' = [pc EXCEPT ![c] = "ask_answer"]
                      /\ UNCHANGED result
    /\ UNCHANGED <<config, page, store, indexed, args, generated, context, upsertLocals>>

\* ask, lines 273-277: retrieve relevant documents
AskSearch(c) ==
    /\ pc[c] = "ask_search"
    /\ \E o \in search(args[c].question, args[c].top_k, args[c].filter) :
          LET retrieved == ask_retrieve(o)
          IN  /\ searched' = [searched EXCEPT ![c] = o]
              /\ calls' = [calls EXCEPT ![c] = calls[c] \o o.calls]
              /\ IF retrieved.kind = "raise"
                 THEN /\ result' = [result EXCEPT ![c] = Raise(retrieved.error)]
                      /\ pc' = [pc EXCEPT ![c] = "done"]
                      /\ UNCHANGED documents
                 ELSE /\ documents' = [documents EXCEPT ![c] = retrieved.value]
                      /\ pc' = [pc EXCEPT ![c] = "ask_answer"]
                      /\ UNCHANGED result
    /\ UNCHANGED <<config, page, store, indexed, args, generated, context, upsertLocals>>

\* ask keeping the exchange as conversation memory in the knowledge base
AskAnswer_remembers(c) ==
    /\ pc[c] = "ask_answer"
    /\ LET ctx == _format_context(documents[c])
           system_prompt == FormatSystemPrompt(ctx)
       IN  /\ context' = [context EXCEPT ![c] = ctx]
           /\ \E a \in ask_answer(args[c].question, documents[c], system_prompt) :
                 /\ generated' = [generated EXCEPT ![c] = a.generation]
                 /\ calls' = [calls EXCEPT ![c] = calls[c] \o a.calls]
                 /\ result' = [result EXCEPT ![c] =
                        IF a.kind = "raise" THEN Raise(a.error)
                        ELSE Return(RAGResponse(a.value, documents[c],
                                                args[c].question))]
    /\ store' = Upserted(store, <<[id |-> "history", values |-> <<0, 0, 0>>,
                                   metadata |-> [content |-> args[c].question,
                                                 source |-> "conversation"]]>>)
    /\ pc' = [pc EXCEPT ![c] = ask_returns_to(args[c].op, result'[c])]
    /\ UNCHANGED <<config, page, indexed, args, searched, documents, upsertLocals>>

\* ask, lines 279-302: format the context, generate the answer, return
AskAnswer(c) ==
    /\ pc[c] = "ask_answer"
    /\ LET ctx == _format_context(documents[c])
           system_prompt == FormatSystemPrompt(ctx)
       IN  /\ context' = [context EXCEPT ![c] = ctx]
           /\ \E a \in ask_answer(args[c].question, documents[c], system_prompt) :
                 /\ generated' = [generated EXCEPT ![c] = a.generation]
                 /\ calls' = [calls EXCEPT ![c] = calls[c] \o a.calls]
                 /\ result' = [result EXCEPT ![c] =
                        IF a.kind = "raise" THEN Raise(a.error)
                        ELSE Return(RAGResponse(a.value, documents[c],
                                                args[c].question))]
    /\ pc' = [pc EXCEPT ![c] = ask_returns_to(args[c].op, result'[c])]
    /\ UNCHANGED <<config, page, store, indexed, args, searched, documents, upsertLocals>>

\* upsert_documents computing the embeddings before it looks at the index
UpsertCall_embeds_first(c, docs, batch_size) ==
    /\ pc[c] = "idle"
    /\ args' = [args EXCEPT ![c] =
                   [op |-> "upsert_documents", documents |-> docs,
                    batch_size |-> batch_size]]
    /\ LET computed == embed_documents(docs)
           embedded == IF computed.kind = "raise" THEN computed
                       ELSE IF ~index THEN Raise(StoreUnavailable)
                       ELSE computed
       IN  IF embedded.kind = "raise"
           THEN /\ result' = [result EXCEPT ![c] = embedded]
                /\ pc' = [pc EXCEPT ![c] = "done"]
                /\ UNCHANGED upsertLocals
           ELSE /\ vectors' = [vectors EXCEPT ![c] = embedded.value]
                /\ i' = [i EXCEPT ![c] = 0]
                /\ total' = [total EXCEPT ![c] = 0]
                /\ IF upsert_in_range(embedded.value, 0, batch_size)
                   THEN /\ pc' = [pc EXCEPT ![c] = "upsert_loop"]
                        /\ UNCHANGED result
                   ELSE /\ pc' = [pc EXCEPT ![c] = "done"]
                        /\ result' = [result EXCEPT ![c] = Return(0)]
    /\ UNCHANGED <<config, page, store, indexed, askLocals, calls>>

\* upsert_documents, lines 136-142: the index check and the embeddings
UpsertCall(c, docs, batch_size) ==
    /\ pc[c] = "idle"
    /\ args' = [args EXCEPT ![c] =
                   [op |-> "upsert_documents", documents |-> docs,
                    batch_size |-> batch_size]]
    /\ LET embedded == IF ~index THEN Raise(StoreUnavailable)
                       ELSE embed_documents(docs)
       IN  IF embedded.kind = "raise"
           THEN /\ result' = [result EXCEPT ![c] = embedded]
                /\ pc' = [pc EXCEPT ![c] = "done"]
                /\ UNCHANGED upsertLocals
           ELSE /\ vectors' = [vectors EXCEPT ![c] = embedded.value]
                /\ i' = [i EXCEPT ![c] = 0]
                /\ total' = [total EXCEPT ![c] = 0]
                /\ IF upsert_in_range(embedded.value, 0, batch_size)
                   THEN /\ pc' = [pc EXCEPT ![c] = "upsert_loop"]
                        /\ UNCHANGED result
                   ELSE /\ pc' = [pc EXCEPT ![c] = "done"]
                        /\ result' = [result EXCEPT ![c] = Return(0)]
    /\ UNCHANGED <<config, page, store, indexed, askLocals, calls>>

\* upsert_documents re-populating the index: each batch replaces its contents
UpsertBatch_repopulates(c) ==
    /\ pc[c] = "upsert_loop"
    /\ LET batch == upsert_batch(vectors[c], i[c], args[c].batch_size)
           sent  == total[c] + Len(batch)
           next  == i[c] + args[c].batch_size
       IN  /\ store' = Upserted(<<>>, batch)
           /\ indexed' = Recorded(<<>>, [j \in 1..Len(batch) |-> batch[j].id],
                                  SubSeq(args[c].documents, i[c] + 1, i[c] + Len(batch)))
           /\ calls' = [calls EXCEPT ![c] =
                           Append(calls[c], [kind |-> "upsert", vectors |-> batch,
                                             raised |-> FALSE])]
           /\ total' = [total EXCEPT ![c] = sent]
           /\ IF upsert_in_range(vectors[c], next, args[c].batch_size)
              THEN /\ i' = [i EXCEPT ![c] = next]
                   /\ UNCHANGED <<pc, result>>
              ELSE /\ pc' = [pc EXCEPT ![c] = "done"]
                   /\ result' = [result EXCEPT ![c] = Return(sent)]
                   /\ UNCHANGED i
    /\ UNCHANGED <<config, page, args, askLocals, vectors>>

\* upsert_documents, lines 143-148: one iteration of the batch loop whose
\* upsert succeeds (and the return after the last one)
UpsertBatch(c) ==
    /\ pc[c] = "upsert_loop"
    /\ LET batch == upsert_batch(vectors[c], i[c], args[c].batch_size)
           sent  == total[c] + Len(batch)
           next  == i[c] + args[c].batch_size
       IN  /\ store' = Upserted(store, batch)
           /\ indexed' = Recorded(indexed, [j \in 1..Len(batch) |-> batch[j].id],
                                  SubSeq(args[c].documents, i[c] + 1, i[c] + Len(batch)))
           /\ calls' = [calls EXCEPT ![c] =
                           Append(calls[c], [kind |-> "upsert", vectors |-> batch,
                                             raised |-> FALSE])]
           /\ total' = [total EXCEPT ![c] = sent]
           /\ IF upsert_in_range(vectors[c], next, args[c].batch_size)
              THEN /\ i' = [i EXCEPT ![c] = next]
                   /\ UNCHANGED <<pc, result>>
              ELSE /\ pc' = [pc EXCEPT ![c] = "done"]
                   /\ result' = [result EXCEPT ![c] = Return(sent)]
                   /\ UNCHANGED i
    /\ UNCHANGED <<config, page, args, askLocals, vectors>>

\* upsert_documents deleting the batches it has sent when an upsert raises
UpsertFail_cleanup(c) ==
    /\ pc[c] = "upsert_loop"
    /\ LET batch == upsert_batch(vectors[c], i[c], args[c].batch_size)
           sent  == {vectors[c][j].id : j \in 1..i[c]}
       IN  /\ calls' = [calls EXCEPT ![c] =
                           Append(calls[c], [kind |-> "upsert", vectors |-> batch,
                                             raised |-> TRUE])]
           /\ store' = [id \in DOMAIN store \ sent |-> store[id]]
           /\ indexed' = [id \in DOMAIN indexed \ sent |-> indexed[id]]
    /\ result' = [result EXCEPT ![c] = Raise(VectorServiceError)]
    /\ pc' = [pc EXCEPT ![c] = "done"]
    /\ UNCHANGED <<config, page, args, askLocals, upsertLocals>>

\* upsert_documents, line 145: the upsert of the current batch raises, and
\* the exception leaves upsert_documents
UpsertFail(c) ==
    /\ pc[c] = "upsert_loop"
    /\ LET batch == upsert_batch(vectors[c], i[c], args[c].batch_size)
       IN  calls' = [calls EXCEPT ![c] =
                        Append(calls[c], [kind |-> "upsert", vectors |-> batch,
                                          raised |-> TRUE])]
    /\ result' = [result EXCEPT ![c] = Raise(VectorServiceError)]
    /\ pc' = [pc EXCEPT ![c] = "done"]
    /\ UNCHANGED <<config, page, store, indexed, args, askLocals, upsertLocals>>

\* the caller takes the result; the call's frame is gone
Finish(c) ==
    /\ pc[c] = "done"
    /\ pc' = [pc EXCEPT ![c] = "idle"]
    /\ args' = [args EXCEPT ![c] = NoCall]
    /\ searched' = [searched EXCEPT ![c] = NoResult]
    /\ generated' = [generated EXCEPT ![c] = NoResult]
    /\ documents' = [documents EXCEPT ![c] = <<>>]
    /\ context' = [context EXCEPT ![c] = ""]
    /\ vectors' = [vectors EXCEPT ![c] = <<>>]
    /\ i' = [i EXCEPT ![c] = 0]
    /\ total' = [total EXCEPT ![c] = 0]
    /\ calls' = [calls EXCEPT ![c] = <<>>]
    /\ result' = [result EXCEPT ![c] = NoResult]
    /\ UNCHANGED <<config, page, store, indexed>>

Next ==
    \/ \E c \in Callers, q \in Questions : Embed(c, q)
    \/ \E c \in Callers, q \in Questions, k \in TopKs, f \in Filters :
           Search(c, q, k, f)
    \/ \E c \in Callers, q \in Questions, k \in TopKs, f \in Filters :
           AskCall(c, q, k, f)
    \/ \E c \in Callers : AskSearch(c)
    \/ \E c \in Callers : AskAnswer(c)
    \/ \E c \in Callers, q \in Questions : GetRagResponseCall(c, q)
    \/ \E c \in Callers : GetRagResponseReturn(c)
    \/ \E c \in Callers, docs \in DocLists, b \in BatchSizes :
           UpsertCall(c, docs, b)
    \/ \E c \in Callers : UpsertBatch(c)
    \/ \E c \in Callers : UpsertFail(c)
    \/ \E c \in Callers : Finish(c)

Spec == Init /\ [][Next]_vars

(* One browser session of the page: the script runs from top to bottom once
   for every interaction, with or without a question submitted *)

RunPage(question) ==
    /\ Truthy(question) => Len(SessionMessages(session_state)) < 2 * MaxSubmissions
    /\ user_question' = question
    /\ session_state' = page_run(session_state, question)
    /\ UNCHANGED <<config, store, indexed, pc, args, askLocals, upsertLocals,
                   calls, result>>

InitPage == InitCallers({"t1"})

NextPage == \E question \in PageInputs : RunPage(question)

SpecPage == InitPage /\ [][NextPage]_vars

(* Two callers asking concurrently on one assistant, over a knowledge base
   that has been populated by upsert_documents(SeedDocuments) *)

SeedDocuments ==
    <<[content |-> "Partial curation", source |-> "curation_services.md"],
      [id |-> "doc_1", content |-> "AMI phenotype", source |-> "phenotypes/ami.md",
       metadata |-> [category |-> "phenotypes"]]>>

ConcQuestions == {"What is a phenotype?", "How is data quality assessed?", "etl Curation"}

InitConc ==
    /\ InitConfig
    /\ LET embedded == IF ~index THEN Raise(StoreUnavailable)
                       ELSE embed_documents(SeedDocuments)
       IN  IF embedded.kind = "raise"
           THEN store = <<>> /\ indexed = <<>>
           ELSE /\ store = Upserted(<<>>, embedded.value)
                /\ indexed = Recorded(<<>>, [j \in 1..Len(embedded.value) |->
                                                embedded.value[j].id],
                                      SeedDocuments)
    /\ InitFrames({"t1", "t2"})
    /\ InitPageState

NextConc ==
    \/ \E c \in Callers, q \in ConcQuestions, k \in TopKs, f \in Filters :
           AskCall(c, q, k, f)
    \/ \E c \in Callers : AskSearch(c)
    \/ \E c \in Callers : AskAnswer(c)
    \/ \E c \in Callers : Finish(c)

SpecConc == InitConc /\ [][NextConc]_vars

-----------------------------------------------------------------------------
(* Properties *)

AskDone(c) == pc[c] = "done" /\ args[c].op = "ask"

AskReturned(c) == AskDone(c) /\ result[c].kind = "return"

SearchDone(c) == pc[c] = "done" /\ args[c].op = "search"

UpsertDone(c) == pc[c] = "done" /\ args[c].op = "upsert_documents"

\* ask is past its search step
Searched(c) == args[c].op = "ask" /\ pc[c] \in {"ask_answer", "done"}

\* C1: with no vector-store backend, whatever the other two backends are,
\* search raises StoreUnavailable (called directly or from ask), and ask
\* builds the placeholder context and every response it returns has empty
\* sources; it returns one unless the generation call raised.
C1_NoStore ==
    ~index =>
        \A c \in Callers :
            /\ SearchDone(c) =>
                   result[c].kind = "raise" /\ result[c].error = StoreUnavailable
            /\ Searched(c) =>
                   searched[c].kind = "raise" /\ searched[c].error = StoreUnavailable
            /\ AskDone(c) =>
                   /\ context[c] = NoDocumentsContext
                   /\ result[c].kind = "return" => result[c].value.sources = <<>>
                   /\ result[c].kind = "raise" => generated[c].kind = "raise"

C1_Witness ==
    \E c \in Callers :
        ~index /\ encoder /\ client /\ AskReturned(c) /\ result[c].value.sources = <<>>

UpperOf ==
    [a |-> "A", c |-> "C", e |-> "E", h |-> "H", i |-> "I", l |-> "L",
     n |-> "N", o |-> "O", p |-> "P", q |-> "Q", r |-> "R", t |-> "T",
     u |-> "U", y |-> "Y"]

\* the question holds the (lowercase) word somewhere, in any mix of cases
Mentions(question, word) ==
    \E p \in 1..(Len(question) - Len(word) + 1) :
        \A j \in 1..Len(word) :
            LET ch == SubSeq(question, p + j - 1, p + j - 1)
                w  == SubSeq(word, j, j)
            IN  ch = w \/ ch = UpperOf[w]

FallbackFor(question) ==
    CASE Mentions(question, "phenotype") -> PhenotypeResponse
      [] ~Mentions(question, "phenotype")
         /\ (Mentions(question, "quality") \/ Mentions(question, "qa")) ->
             QualityResponse
      [] ~Mentions(question, "phenotype")
         /\ ~(Mentions(question, "quality") \/ Mentions(question, "qa"))
         /\ (Mentions(question, "curation") \/ Mentions(question, "etl")) ->
             CurationResponse
      [] OTHER -> GenericResponse

\* C2: with no generation backend, ask returns the fallback string that the
\* question alone selects (case-insensitive substring match, priority
\* phenotype > quality/qa > curation/etl > generic), whatever was retrieved.
C2_FallbackByQuestion ==
    \A c \in Callers :
        (AskDone(c) /\ ~client) =>
            /\ result[c].kind = "return"
            /\ generated[c].kind = "absent"
            /\ result[c].value.answer = FallbackFor(args[c].question)

C2_Witness ==
    \E c \in Callers :
        /\ ~client /\ AskReturned(c)
        /\ args[c].question = "PHENOTYPE quality"
        /\ result[c].value.sources # <<>>
        /\ result[c].value.answer = PhenotypeResponse

\* C3: when the search step of ask fails, for whatever reason, ask goes on
\* to its answer step with an empty document list, and no error of the
\* retrieval leaves ask.
C3_RetrievalFailSoft ==
    \A c \in Callers :
        (Searched(c) /\ searched[c].kind = "raise") =>
            /\ documents[c] = <<>>
            /\ AskDone(c) =>
                   /\ generated[c].kind # "none"
                   /\ result[c].kind = "raise" =>
                          generated[c].kind = "raise" /\ result[c].error = generated[c].error
                   /\ result[c].kind = "return" => result[c].value.sources = <<>>

C3_Witness ==
    \E c \in Callers :
        /\ AskReturned(c)
        /\ searched[c].kind = "raise"
        /\ searched[c].error = VectorServiceError

\* C4: when the configured generation backend raises, the exception leaves
\* ask and no response is returned; the fallback answer is computed only
\* when the backend is absent.
C4_GenerationFailHard ==
    \A c \in Callers :
        AskDone(c) =>
            /\ generated[c].kind = "raise" =>
                   result[c].kind = "raise" /\ result[c].error = generated[c].error
            /\ generated[c].kind = "absent" <=> ~client

C4_Witness ==
    \E c \in Callers :
        /\ AskDone(c) /\ client
        /\ generated[c].kind = "raise"
        /\ documents[c] # <<>>

\* C5: a response returned by ask carries the documents its own search step
\* obtained (none if the search failed), in order, and the question as given,
\* on the generated path and on the fallback path.
C5_SourcesAndQuery ==
    \A c \in Callers :
        AskReturned(c) =>
            /\ result[c].value.sources =
                   (IF searched[c].kind = "return" THEN searched[c].value ELSE <<>>)
            /\ result[c].value.query = args[c].question

C5_Witness ==
    \E c \in Callers :
        /\ AskReturned(c) /\ client
        /\ Len(result[c].value.sources) = 2
        /\ result[c].value.sources[2].score = 0
        /\ Lower(args[c].question) # args[c].question

\* scores in non-increasing order
Ranked(docs) ==
    \A a, b \in 1..Len(docs) : a < b => docs[a].score >= docs[b].score

\* C6: search(query, top_k=k) returns at most k results, in non-increasing
\* order of score.
C6_SearchTopK ==
    \A c \in Callers :
        (SearchDone(c) /\ result[c].kind = "return") =>
            /\ Len(result[c].value) <= args[c].top_k
            /\ Ranked(result[c].value)

C6_Witness ==
    \E c \in Callers :
        /\ SearchDone(c) /\ result[c].kind = "return"
        /\ Cardinality(DOMAIN store) > args[c].top_k
        /\ args[c].top_k = 2
        /\ Len(result[c].value) = 2
        /\ result[c].value[1].score > result[c].value[2].score

\* C7: the sources of every response of ask(question, top_k) are at most
\* top_k and in non-increasing order of score.
C7_SourcesTopK ==
    \A c \in Callers :
        AskReturned(c) =>
            /\ Len(result[c].value.sources) <= args[c].top_k
            /\ Ranked(result[c].value.sources)

C7_Witness ==
    \E c \in Callers :
        /\ AskReturned(c)
        /\ Cardinality(DOMAIN store) > args[c].top_k
        /\ Len(result[c].value.sources) = args[c].top_k
        /\ \E a \in 1..(args[c].top_k - 1) :
              result[c].value.sources[a].score > result[c].value.sources[a + 1].score

\* the batches the loop of upsert_documents sends for vecs, from `from` on
RECURSIVE Batches(_, _, _)
Batches(vecs, from, batch_size) ==
    IF upsert_in_range(vecs, from, batch_size)
    THEN <<upsert_batch(vecs, from, batch_size)>> \o
         Batches(vecs, from + batch_size, batch_size)
    ELSE <<>>

\* the documented scenario: 250 documents, batch_size=100
Scenario250 ==
    LET sent == Batches([j \in 1..250 |-> j], 0, 100)
    IN  /\ Len(sent) = 3
        /\ <<Len(sent[1]), Len(sent[2]), Len(sent[3])>> = <<100, 100, 50>>
        /\ sent[1] \o sent[2] \o sent[3] = [j \in 1..250 |-> j]

\* C8: an upsert_documents of n documents with batch size b >= 1 that returns
\* has issued ceil(n/b) upserts, the j-th holding the vectors of documents
\* (j-1)b+1 .. min(jb, n) in input order (so b each, but n mod b in a last
\* partial one), and returns n; 250 documents in batches of 100 go out as
\* 100, 100, 50.
C8_Batches ==
    /\ Scenario250
    /\ \A c \in Callers :
        (UpsertDone(c) /\ result[c].kind = "return") =>
            LET docs == args[c].documents
                n == Len(docs)
                b == args[c].batch_size
                m == (n + b - 1) \div b
            IN  /\ Len(calls[c]) = m
                /\ result[c].value = n
                /\ \A j \in 1..m :
                      LET sent == calls[c][j]
                      IN  /\ sent.kind = "upsert" /\ ~sent.raised
                          /\ Len(sent.vectors) =
                                 (IF j < m \/ n % b = 0 THEN b ELSE n % b)
                          /\ \A k \in 1..Len(sent.vectors) :
                                sent.vectors[k] =
                                    embed_document((j - 1) * b + k - 1,
                                                   docs[(j - 1) * b + k]).value

C8_Witness ==
    \E c \in Callers :
        /\ UpsertDone(c) /\ result[c].kind = "return"
        /\ Len(args[c].documents) = 3 /\ args[c].batch_size = 2
        /\ Len(calls[c]) = 2
        /\ Len(calls[c][2].vectors) = 1
        /\ result[c].value = 3

\* C9: when the j-th upsert of upsert_documents raises, the exception leaves
\* upsert_documents, the j-th call is the last one issued, and the vectors of
\* the j-1 batches before it are in the store.
C9_PartialFailure ==
    \A c \in Callers :
        (UpsertDone(c) /\ result[c].kind = "raise" /\ calls[c] # <<>>) =>
            LET j == Len(calls[c])
                b == args[c].batch_size
                earlier == SubSeq(vectors[c], 1, (j - 1) * b)
            IN  /\ result[c].error = VectorServiceError
                /\ calls[c][j].raised
                /\ calls[c][j].vectors =
                       SubSeq(vectors[c], (j - 1) * b + 1, Min(j * b, Len(vectors[c])))
                /\ \A k \in 1..(j - 1) : ~calls[c][k].raised
                /\ total[c] = Len(earlier)
                /\ \A k \in 1..Len(earlier) :
                      /\ earlier[k].id \in DOMAIN store
                      /\ (\A later \in (k + 1)..Len(earlier) :
                              earlier[later].id # earlier[k].id) =>
                             store[earlier[k].id] =
                                 [values |-> earlier[k].values,
                                  metadata |-> earlier[k].metadata]

C9_Witness ==
    \E c \in Callers :
        /\ UpsertDone(c) /\ result[c].kind = "raise"
        /\ Len(vectors[c]) = 3 /\ args[c].batch_size = 1
        /\ Len(calls[c]) = 2
        /\ vectors[c][1].id \in DOMAIN store
        /\ vectors[c][3].id \notin DOMAIN store

\* what a search returned, with the matches it was built from
RoundTrip(outcome) ==
    \A j \in 1..Len(outcome.value) :
        LET doc == indexed[outcome.matches[j].id]
        IN  /\ outcome.value[j].content = doc["content"]
            /\ outcome.value[j].source = doc["source"]

\* C10: every entry a search returns carries the content and the source of
\* the document that was indexed under its id.
C10_RoundTrip ==
    \A c \in Callers :
        /\ (SearchDone(c) /\ result[c].kind = "return") => RoundTrip(result[c])
        /\ (Searched(c) /\ searched[c].kind = "return") => RoundTrip(searched[c])

\* the step is a successful upsert of caller c's current batch
UpsertStep(c) ==
    /\ pc[c] = "upsert_loop"
    /\ Len(calls'[c]) = Len(calls[c]) + 1
    /\ ~calls'[c][Len(calls'[c])].raised

\* the documents of caller c's current batch
BatchDocs(c) ==
    SubSeq(args[c].documents, i[c] + 1,
           Min(i[c] + args[c].batch_size, Len(args[c].documents)))

\* every document of the sequence carries an id of its own
AllExplicit(docs) == \A k \in 1..Len(docs) : "id" \in DOMAIN docs[k]

\* C11: indexing is idempotent per document id. An upsert of documents that
\* carry an id and are each the document last indexed under some id leaves
\* the store exactly as it was, and an upsert of documents that carry ids adds
\* at most one entry per distinct id, however often a document is repeated.
C11_Idempotent ==
    [][\A c \in Callers :
          UpsertStep(c) =>
              LET docs == BatchDocs(c)
              IN  /\ (/\ AllExplicit(docs)
                      /\ \A k \in 1..Len(docs) :
                            \E id \in DOMAIN indexed : indexed[id] = docs[k])
                        => store' = store
                  /\ AllExplicit(docs) =>
                        Cardinality(DOMAIN store' \ DOMAIN store) <=
                            Cardinality({docs[k].id : k \in 1..Len(docs)})]_vars

C11_Witness ==
    \E c \in Callers :
        /\ UpsertDone(c) /\ result[c] = Return(2)
        /\ Len(args[c].documents) = 2
        /\ args[c].documents[1] = args[c].documents[2]
        /\ "id" \in DOMAIN args[c].documents[1]
        /\ args[c].batch_size = 1
        /\ Len(calls[c]) = 2
        /\ Cardinality(DOMAIN store) = 1

EmbedDone(c) == pc[c] = "done" /\ args[c].op = "embed_text"

EmbeddingFails(c) ==
    result[c].kind = "raise" /\ result[c].error = EmbeddingUnavailable

\* C12 as stated: with no embedding backend, embed_text, search and a
\* non-empty upsert_documents each fail with EmbeddingUnavailable, whatever
\* the vector-store backend is.
C12_EmbeddingUnavailable ==
    ~encoder =>
        \A c \in Callers :
            /\ EmbedDone(c) => EmbeddingFails(c)
            /\ SearchDone(c) => EmbeddingFails(c)
            /\ (UpsertDone(c) /\ args[c].documents # <<>>) => EmbeddingFails(c)

\* C12 amended: with no embedding backend, embed_text fails with
\* EmbeddingUnavailable, and so do search and a non-empty upsert_documents
\* when a vector-store backend is configured; with no vector-store backend
\* they fail with StoreUnavailable instead.
C12_EmbeddingUnavailableBehindStore ==
    ~encoder =>
        \A c \in Callers :
            /\ EmbedDone(c) => EmbeddingFails(c)
            /\ (SearchDone(c) \/ (UpsertDone(c) /\ args[c].documents # <<>>)) =>
                   /\ result[c].kind = "raise"
                   /\ result[c].error =
                          IF index THEN EmbeddingUnavailable ELSE StoreUnavailable

C12_Witness ==
    \E c \in Callers :
        /\ ~encoder /\ index
        /\ UpsertDone(c) /\ args[c].documents # <<>>
        /\ EmbeddingFails(c)

\* the positions of caller c's external calls of the given kind
CallsOfKind(c, kind) == {k \in 1..Len(calls[c]) : calls[c][k].kind = kind}

\* C13: one ask issues at most two external calls: at most one query of the
\* vector index and at most one generation request, the generation request
\* only once the search has returned or raised and after the query; a call
\* that failed is the only one of its kind (no retry).
C13_TwoSequentialCalls ==
    \A c \in Callers :
        args[c].op = "ask" =>
            /\ Len(calls[c]) <= 2
            /\ \A k \in 1..Len(calls[c]) : calls[c][k].kind \in {"query", "generate"}
            /\ Cardinality(CallsOfKind(c, "query")) <= 1
            /\ Cardinality(CallsOfKind(c, "generate")) <= 1
            /\ \A g \in CallsOfKind(c, "generate") :
                  /\ searched[c].kind \in {"return", "raise"}
                  /\ \A q \in CallsOfKind(c, "query") : q < g
            /\ pc[c] = "ask_search" => calls[c] = <<>>
            /\ (searched[c].kind = "raise" /\ searched[c].error = VectorServiceError)
                   => Cardinality(CallsOfKind(c, "query")) = 1
            /\ generated[c].kind = "raise" =>
                   Cardinality(CallsOfKind(c, "generate")) = 1

C13_Witness ==
    \E c \in Callers :
        /\ AskDone(c)
        /\ searched[c].kind = "raise" /\ searched[c].error = VectorServiceError
        /\ generated[c].kind = "raise"
        /\ Len(calls[c]) = 2
        /\ calls[c][1].kind = "query" /\ calls[c][2].kind = "generate"

\* the responses one ask(question, top_k, filter) can return over the present
\* store and backends, when nothing else runs
AskResponses(question, top_k, filter) ==
    UNION {LET retrieved == ask_retrieve(o)
           IN  IF retrieved.kind = "raise" THEN {}
               ELSE {RAGResponse(a.value, retrieved.value, question) :
                       a \in {b \in ask_answer(question, retrieved.value,
                                     FormatSystemPrompt(_format_context(retrieved.value))) :
                                b.kind = "return"}} :
           o \in search(question, top_k, filter)}

\* the step belongs to an ask of caller c
AskStep(c) == (args[c].op = "ask" \/ args'[c].op = "ask") /\ pc'[c] # pc[c]

\* C14: ask is stateless. No step of an ask changes the backends' fields or
\* the store, and the response an ask returns is one that the question, top_k
\* and filter give over the store as it is, whatever calls came before.
C14_AskStateless ==
    /\ [](\A c \in Callers :
             AskReturned(c) =>
                 result[c].value \in
                     AskResponses(args[c].question, args[c].top_k, args[c].filter))
    /\ [][\A c \in Callers :
             AskStep(c) => UNCHANGED <<encoder, index, client, store, indexed>>]_vars

C14_Witness ==
    \E c \in Callers :
        /\ AskReturned(c)
        /\ Cardinality(DOMAIN store) >= 2
        /\ Len(result[c].value.sources) >= 1

\* the generation requests caller c has issued
Requests(c) == {calls[c][k] : k \in CallsOfKind(c, "generate")}

\* C15: with two callers asking concurrently, under every interleaving each
\* ask that returns gives a response it could give when run alone: its own
\* question, the documents its own search got and formatted, and an answer
\* made from its own question and context.
C15_ConcurrentAsk ==
    \A c \in Callers :
        AskReturned(c) =>
            /\ result[c].value \in
                   AskResponses(args[c].question, args[c].top_k, args[c].filter)
            /\ result[c].value.query = args[c].question
            /\ searched[c].kind = "return" => result[c].value.sources = searched[c].value
            /\ context[c] = _format_context(result[c].value.sources)
            /\ \A req \in Requests(c) :
                   /\ req.system = FormatSystemPrompt(context[c])
                   /\ req.messages = <<[role |-> "user", content |-> args[c].question]>>

\* both calls are in flight together, over different questions, and one has
\* returned documents the other's search did not get
C15_Witness ==
    \E c, d \in Callers :
        /\ c # d
        /\ AskReturned(c) /\ Searched(d)
        /\ args[c].question # args[d].question
        /\ searched[c].kind = "return" /\ searched[d].kind = "return"
        /\ searched[c].value # <<>>
        /\ searched[c].value # searched[d].value

GetRagResponseDone(c) == pc[c] = "done" /\ args[c].op = "get_rag_response"

\* C16: get_rag_response(question) performs one ask of the question with
\* top_k 5 and no filter (any query it issues asks for 5 matches, unfiltered),
\* and returns the pair of the response's answer and the source labels of the
\* response's sources, one per retrieved document, in their order.
C16_GetRagResponse ==
    /\ [](\A c \in Callers :
             args[c].op = "get_rag_response" =>
                 /\ args[c].top_k = 5 /\ args[c].filter = NoFilter
                 /\ Cardinality(CallsOfKind(c, "query")) <= 1
                 /\ Cardinality(CallsOfKind(c, "generate")) <= 1
                 /\ \A k \in CallsOfKind(c, "query") :
                        calls[c][k].top_k = 5 /\ calls[c][k].filter = NoFilter
                 /\ pc[c] = "rag_return" =>
                        result[c].value \in AskResponses(args[c].question, 5, NoFilter)
                 /\ (GetRagResponseDone(c) /\ result[c].kind = "return") =>
                        /\ Len(result[c].value) = 2
                        /\ Len(result[c].value[2]) = Len(documents[c])
                        /\ \A j \in 1..Len(documents[c]) :
                               result[c].value[2][j] = documents[c][j].source)
    /\ [][\A c \in Callers :
             (pc[c] = "rag_return" /\ pc'[c] = "done") =>
                 /\ result'[c].kind = "return"
                 /\ result'[c].value[1] = result[c].value.answer
                 /\ Len(result'[c].value[2]) = Len(result[c].value.sources)
                 /\ \A j \in 1..Len(result[c].value.sources) :
                        result'[c].value[2][j] = result[c].value.sources[j].source]_vars

\* the call has returned two labels that are the same source
C16_Witness ==
    \E c \in Callers :
        /\ GetRagResponseDone(c) /\ result[c].kind = "return"
        /\ Len(result[c].value[2]) >= 2
        /\ result[c].value[2][1] = result[c].value[2][2]

\* C17: the backends are optional at construction. In every environment,
\* whichever packages and keys are missing, the constructors return; and with
\* no backend at all every ask returns a response: one of the four demo
\* answers, with no sources.
C17_OptionalBackends ==
    /\ constructed = "return"
    /\ (~encoder /\ ~index /\ ~client) =>
           \A c \in Callers :
               AskDone(c) =>
                   /\ result[c].kind = "return"
                   /\ result[c].value.answer \in
                          {PhenotypeResponse, QualityResponse, CurationResponse,
                           GenericResponse}
                   /\ result[c].value.sources = <<>>
                   /\ calls[c] = <<>>

C17_Witness ==
    \E c \in Callers :
        /\ constructed = "return" /\ ~encoder /\ ~index /\ ~client
        /\ AskReturned(c)
        /\ result[c].value.answer = GenericResponse

NoBackends == ~encoder /\ ~index /\ ~client

\* the numbered items "<digit>. **" that start a line of the text
NumberedItems(text) ==
    {p \in 1..(Len(text) - 5) :
        SubSeq(text, p, p) = "\n" /\ SubSeq(text, p + 2, p + 5) = ". **"}

QualityDimensions ==
    <<"Completeness", "Validity", "Consistency", "Timeliness", "Uniqueness",
      "Accuracy">>

\* C18: with no backends, ask("What is a phenotype?") returns an answer
\* holding "Codelist-driven definitions" and no sources, and
\* ask("How is data quality assessed?") returns an answer whose numbered list
\* has exactly six items, naming the six quality dimensions in order.
C18_Scenarios ==
    NoBackends =>
        \A c \in Callers :
            /\ (AskDone(c) /\ args[c].question = "What is a phenotype?") =>
                   /\ result[c].kind = "return"
                   /\ Contains("Codelist-driven definitions", result[c].value.answer)
                   /\ result[c].value.sources = <<>>
            /\ (AskDone(c) /\ args[c].question = "How is data quality assessed?") =>
                   /\ result[c].kind = "return"
                   /\ Cardinality(NumberedItems(result[c].value.answer)) = 6
                   /\ \A n \in 1..6 :
                          Contains("\n" \o ToString(n) \o ". **" \o
                                   QualityDimensions[n] \o "** - ",
                                   result[c].value.answer)

C18_Witness ==
    \E c \in Callers :
        /\ NoBackends /\ AskReturned(c)
        /\ args[c].question = "How is data quality assessed?"
        /\ Contains("6. **Accuracy**", result[c].value.answer)

\* upsert_documents has embedded the documents of caller c's call
Embedded(c) ==
    /\ args[c].op = "upsert_documents"
    /\ args[c].documents # <<>>
    /\ Len(vectors[c]) = Len(args[c].documents)

\* the ids the caller wrote into the documents are pairwise distinct
ExplicitIdsDistinct(docs) ==
    \A j, k \in 1..Len(docs) :
        ("id" \in DOMAIN docs[j] /\ "id" \in DOMAIN docs[k] /\ j # k) =>
            docs[j].id # docs[k].id

\* C19: in one upsert_documents call whose explicit ids are pairwise
\* distinct, the vectors (those of documents without an id included) are
\* upserted under pairwise distinct ids.
C19_UniqueIds ==
    \A c \in Callers :
        (Embedded(c) /\ ExplicitIdsDistinct(args[c].documents)) =>
            \A j, k \in 1..Len(vectors[c]) :
                j # k => vectors[c][j].id # vectors[c][k].id

\* the ids of the vectors in a sequence
IdsOf(vecs) == {vecs[k].id : k \in 1..Len(vecs)}

\* the step belongs to a search, an ask or a get_rag_response of caller c
ReadStep(c) ==
    /\ pc'[c] # pc[c]
    /\ \/ args[c].op \in {"search", "ask", "get_rag_response"}
       \/ args'[c].op \in {"search", "ask", "get_rag_response"}

\* C20: stored entries are never deleted and change only by an upsert of
\* their id. No step removes an id from the store; steps of search and ask
\* leave the store as it is; and an entry that is new or changed after a step
\* has an id of the batch that step upserted.
C20_StoreMonotone ==
    [][/\ DOMAIN store \subseteq DOMAIN store'
       /\ \A c \in Callers : ReadStep(c) => store' = store
       /\ \A id \in DOMAIN store' :
             (id \notin DOMAIN store \/ store'[id] # store[id]) =>
                 \E c \in Callers :
                     /\ UpsertStep(c)
                     /\ id \in IdsOf(calls'[c][Len(calls'[c])].vectors)]_vars

\* an upsert_documents call has returned and an entry it did not upsert is
\* still in the store beside its own
C20_Witness ==
    \E c \in Callers :
        /\ UpsertDone(c) /\ result[c].kind = "return"
        /\ IdsOf(vectors[c]) # {}
        /\ IdsOf(vectors[c]) \subseteq DOMAIN store
        /\ DOMAIN store \ IdsOf(vectors[c]) # {}

\* ask has run its answer step for caller c (called directly or by
\* get_rag_response)
Answered(c) ==
    /\ args[c].op \in {"ask", "get_rag_response"}
    /\ pc[c] \in {"done", "rag_return"}

\* the positions at which the text holds the substring
Positions(sub, text) ==
    {p \in 1..(Len(text) - Len(sub) + 1) : SubSeq(text, p, p + Len(sub) - 1) = sub}

\* the tagged entry of the i-th retrieved document
TaggedEntry(n, doc) ==
    "[Source " \o ToString(n) \o ": " \o doc.source \o "]\n" \o doc.content

\* C21: the context of an ask that retrieved n >= 1 documents holds one
\* tagged entry "[Source i: <source>]\n<content>" per document, i = 1..n in
\* retrieval order, the first at the start and each separated from the next by
\* the separator line "---", and no other "[Source " tag; the context of an
\* ask whose search raised or returned no match is the placeholder.
C21_ContextBlock ==
    \A c \in Callers :
        Answered(c) =>
            LET docs == documents[c]
                n == Len(docs)
                at(j) == Positions(TaggedEntry(j, docs[j]), context[c])
            IN  /\ (searched[c].kind = "raise" \/ searched[c].value = <<>>) =>
                       context[c] = "No relevant documents found."
                /\ searched[c].kind = "return" => docs = searched[c].value
                /\ n >= 1 =>
                       /\ 1 \in at(1)
                       /\ Cardinality(Positions("[Source ", context[c])) = n
                       /\ \A j \in 1..n : at(j) # {}
                       /\ \A j \in 1..(n - 1) :
                              \E p \in at(j), q \in at(j + 1) :
                                  LET between == SubSeq(context[c],
                                          p + Len(TaggedEntry(j, docs[j])), q - 1)
                                  IN  Positions("\n---\n", between) # {}

C21_Witness ==
    \E c \in Callers :
        /\ Answered(c)
        /\ Len(documents[c]) >= 2
        /\ documents[c][1].source # documents[c][2].source
        /\ Positions("[Source 2: ", context[c]) # {}

\* the text starts with the prefix / ends with the suffix
StartsWith(prefix, text) == SubSeq(text, 1, Len(prefix)) = prefix

EndsWith(suffix, text) ==
    SubSeq(text, Len(text) - Len(suffix) + 1, Len(text)) = suffix

\* C22: with a generation backend, an ask that reaches its answer step sends
\* exactly one request: its system text is the fixed instruction with the
\* context in the place of the {context} field, its only message is the user
\* message holding the question verbatim, and the answer of the response is
\* the generated text, not the keyword fallback. Without a generation backend
\* no request is sent.
C22_SingleTurnRequest ==
    \A c \in Callers :
        Answered(c) =>
            /\ client =>
                   /\ Cardinality(CallsOfKind(c, "generate")) = 1
                   /\ \A req \in Requests(c) :
                          /\ StartsWith("You are an expert assistant for ", req.system)
                          /\ EndsWith("Context from the knowledge base:\n" \o
                                      context[c] \o "\n", req.system)
                          /\ Len(req.system) = Len(SYSTEM_PROMPT) - 9 + Len(context[c])
                          /\ Positions("{context}", req.system) = {}
                          /\ Len(req.messages) = 1
                          /\ req.messages[1].role = "user"
                          /\ req.messages[1].content = args[c].question
                   /\ generated[c].kind \in {"return", "raise"}
                   /\ (pc[c] = "rag_return" \/ AskReturned(c)) =>
                          /\ generated[c].kind = "return"
                          /\ result[c].value.answer = generated[c].value
            /\ ~client =>
                   /\ CallsOfKind(c, "generate") = {}
                   /\ generated[c].kind = "absent"

\* the backend generated a text for a question whose fallback would differ
C22_Witness ==
    \E c \in Callers :
        /\ client /\ AskReturned(c)
        /\ documents[c] # <<>>
        /\ result[c].value.answer \in GenTexts
        /\ Mentions(args[c].question, "phenotype")

\* the documents of a returned search are its matches, one for one
OneToOne(outcome) ==
    /\ Len(outcome.value) = Len(outcome.matches)
    /\ \A j \in 1..Len(outcome.matches) :
          LET m == outcome.matches[j]
              d == outcome.value[j]
          IN  /\ d.score = m.score
              /\ DOMAIN d.metadata = DOMAIN m.metadata \ {"content", "source"}
              /\ \A k \in DOMAIN d.metadata : d.metadata[k] = m.metadata[k]
              /\ "content" \in DOMAIN m.metadata => d.content = m.metadata.content
              /\ "source" \in DOMAIN m.metadata => d.source = m.metadata.source

\* C23: a search that returns gives exactly one RetrievedDocument per match
\* of the index, in the order of the matches, each with the match's score and
\* the match's metadata without the keys content and source; matches that
\* share a source or a content are all kept.
C23_OneToOne ==
    \A c \in Callers :
        /\ (SearchDone(c) /\ result[c].kind = "return") => OneToOne(result[c])
        /\ searched[c].kind = "return" => OneToOne(searched[c])

\* a search returned two documents of the same source and content
C23_Witness ==
    \E c \in Callers :
        /\ SearchDone(c) /\ result[c].kind = "return"
        /\ Len(result[c].value) = 2
        /\ result[c].value[1].source = result[c].value[2].source
        /\ result[c].value[1].content = result[c].value[2].content
        /\ result[c].matches[1].id # result[c].matches[2].id

\* C24: on a knowledge base without a vector store, upsert_documents raises
\* StoreUnavailable for every list of documents and with or without an
\* encoder (also where embedding the documents would raise), with no vector
\* built and no upsert issued; the store stays as it was, empty.
C24_IndexNoStore ==
    ~index =>
        /\ store = <<>>
        /\ \A c \in Callers :
              UpsertDone(c) =>
                  /\ result[c].kind = "raise"
                  /\ result[c].error.msg = "Pinecone not configured"
                  /\ vectors[c] = <<>>
                  /\ CallsOfKind(c, "upsert") = {}
                  /\ total[c] = 0

\* the call fails on the store although its documents cannot be embedded
C24_Witness ==
    \E c \in Callers :
        /\ ~index /\ ~encoder
        /\ UpsertDone(c)
        /\ Len(args[c].documents) >= 1
        /\ "source" \notin DOMAIN args[c].documents[1]
        /\ result[c] = Raise(StoreUnavailable)

\* embedding the documents fails: there is no encoder, or a document lacks
\* its content or its source
CannotEmbed(docs) ==
    /\ docs # <<>>
    /\ \/ ~encoder
       \/ \E k \in 1..Len(docs) :
              "content" \notin DOMAIN docs[k] \/ "source" \notin DOMAIN docs[k]

\* C25: upsert_documents embeds every document of the call before its first
\* upsert. While it upserts, the vectors of all the documents exist; and a
\* call on a store whose documents cannot all be embedded raises the
\* embedding's error with no vector kept and no upsert issued, in a step that
\* leaves the store unchanged.
C25_EmbedBeforeUpsert ==
    /\ [](\A c \in Callers :
             args[c].op = "upsert_documents" =>
                 /\ (pc[c] = "upsert_loop" \/ CallsOfKind(c, "upsert") # {}) =>
                        Len(vectors[c]) = Len(args[c].documents)
                 /\ (index /\ pc[c] = "done" /\ CannotEmbed(args[c].documents)) =>
                        /\ result[c].kind = "raise"
                        /\ result[c].error.type \in {"RuntimeError", "KeyError"}
                        /\ result[c].error # StoreUnavailable
                        /\ vectors[c] = <<>>
                        /\ CallsOfKind(c, "upsert") = {})
    /\ [][\A c \in Callers :
             (pc[c] = "idle" /\ args'[c].op = "upsert_documents") =>
                 store' = store /\ indexed' = indexed]_vars

\* the second document of the call lacks its source: nothing of the call,
\* the first document included, has reached the store
C25_Witness ==
    \E c \in Callers :
        /\ index /\ encoder /\ UpsertDone(c)
        /\ Len(args[c].documents) >= 2
        /\ "source" \in DOMAIN args[c].documents[1]
        /\ "source" \notin DOMAIN args[c].documents[2]
        /\ result[c] = Raise(KeyError("source"))
        /\ store = <<>>

\* the content / source that the document's extra metadata gives when it has
\* that key, and the document's own field otherwise
MergedField(doc, key) ==
    IF "metadata" \in DOMAIN doc /\ key \in DOMAIN doc.metadata
    THEN doc.metadata[key]
    ELSE doc[key]

\* the documents of a returned search carry the merged fields
RetrievedMerged(outcome) ==
    \A j \in 1..Len(outcome.value) :
        LET doc == indexed[outcome.matches[j].id]
        IN  /\ outcome.value[j].content = MergedField(doc, "content")
            /\ outcome.value[j].source = MergedField(doc, "source")

\* C26: the extra metadata of a document is merged over its content and
\* source. The stored content and source of every entry, and those of every
\* document a search retrieves, are the extra metadata's values where it has
\* a key "content" or "source", and the document's own fields otherwise.
C26_MetadataOverrides ==
    /\ \A id \in DOMAIN store :
          /\ store[id].metadata.content = MergedField(indexed[id], "content")
          /\ store[id].metadata.source = MergedField(indexed[id], "source")
    /\ \A c \in Callers :
          /\ (SearchDone(c) /\ result[c].kind = "return") => RetrievedMerged(result[c])
          /\ searched[c].kind = "return" => RetrievedMerged(searched[c])

\* a search retrieved the extra metadata's content and source of a document
\* whose own fields differ
C26_Witness ==
    \E c \in Callers :
        /\ SearchDone(c) /\ result[c].kind = "return"
        /\ Len(result[c].value) >= 1
        /\ result[c].value[1].content = "Quality ETL"
        /\ result[c].value[1].source = "wiki"
        /\ indexed[result[c].matches[1].id].content = "Data quality"

\* C27: the chat history of a session is append-only and made of pairs. It
\* has even length and alternates user, assistant from a user message, every
\* assistant message carrying a sources list; a run with a non-empty question
\* appends the user message of that question and then one assistant message;
\* a run without one leaves the history as it was.
C27_ChatHistory ==
    /\ [](LET messages == SessionMessages(session_state)
          IN  /\ Len(messages) % 2 = 0
              /\ \A k \in 1..Len(messages) :
                     IF k % 2 = 1
                     THEN /\ messages[k].role = "user"
                          /\ messages[k].content # ""
                          /\ DOMAIN messages[k] = {"role", "content"}
                     ELSE /\ messages[k].role = "assistant"
                          /\ DOMAIN messages[k] = {"role", "content", "sources"})
    /\ [][LET old == SessionMessages(session_state)
              new == SessionMessages(session_state')
          IN  page' # page =>
                  /\ Len(new) >= Len(old)
                  /\ SubSeq(new, 1, Len(old)) = old
                  /\ IF user_question'.submitted /\ user_question'.text # ""
                     THEN /\ Len(new) = Len(old) + 2
                          /\ new[Len(old) + 1] =
                                 [role |-> "user", content |-> user_question'.text]
                          /\ new[Len(old) + 2].role = "assistant"
                     ELSE new = old]_vars

\* after two submissions, one answered without sources and one with, the
\* page has run again with nothing submitted
C27_Witness ==
    LET messages == SessionMessages(session_state)
    IN  /\ Len(messages) = 4
        /\ messages[2].sources = <<>>
        /\ messages[4].sources # <<>>
        /\ ~user_question.submitted

=============================================================================
